---------------------------- MODULE Spec2Model ----------------------------
(***************************************************************************)
(* The MML player face of Sensor Watch (mml_player_face.c): a blocking     *)
(* player for a small music macro language.  The face's event handler,     *)
(* the token scanner, the pitch resolver, the duration computation and the *)
(* order of the display / pixel / buzzer commands are modelled statement   *)
(* by statement; the handler's position is the variable pc.                *)
(*                                                                         *)
(* Characters are their ASCII codes; a score is a sequence of codes and    *)
(* the C string's terminating NUL is what is read past its last element.   *)
(***************************************************************************)
EXTENDS Integers, Sequences, FiniteSets, TLC

(***************************************************************************)
(* Bounds of the model.                                                    *)
(***************************************************************************)
\* Longest score drawn from Alphabet (the named scores below are longer).
MaxScoreLen == 3
\* The same, for the specification with fairness (liveness is costlier).
MaxLiveLen == 2
\* Largest tempo (beats per minute) the duration expression is evaluated at.
MaxTempo == 300
\* Last second of the RTC the tide face is followed to (beyond ten minutes).
MaxEpoch == 620

(***************************************************************************)
(* Characters the scanner distinguishes.                                   *)
(***************************************************************************)
NUL       == 0
CH_TAB    == 9
CH_SPACE  == 32
CH_HASH   == 35
CH_PLUS   == 43
CH_MINUS  == 45
CH_0      == 48
CH_9      == 57
CH_A      == 65
CH_B      == 66
CH_C      == 67
CH_D      == 68
CH_E      == 69
CH_F      == 70
CH_G      == 71
CH_P      == 80
CH_R      == 82
CH_Z      == 90
CH_a      == 97
CH_z      == 122
CH_BAR    == 124
CASE_BIT  == 32

\* uint16_t / uint8_t ranges of the C types involved.
UINT16_MOD == 65536
UINT8_MAX  == 255

toupper(ch) == IF ch >= CH_a /\ ch <= CH_z THEN ch - CASE_BIT ELSE ch
tolower(ch) == IF ch >= CH_A /\ ch <= CH_Z THEN ch + CASE_BIT ELSE ch
isdigit(ch) == ch >= CH_0 /\ ch <= CH_9

\* *p for a cursor p (1-based); the byte after the last character is NUL.
At(s, q) == IF q >= 1 /\ q <= Len(s) THEN s[q] ELSE NUL

(***************************************************************************)
(* Scores.                                                                 *)
(***************************************************************************)
\* "c8 d-8 d8 e8 e-8 f8 f+8 g8 g+8 a8 b8 c2 r4 f+2 c8 c8 g4 r8"
demo_mml ==
  <<99, 56, 32, 100, 45, 56, 32, 100, 56, 32, 101, 56, 32, 101, 45, 56, 32,
    102, 56, 32, 102, 43, 56, 32, 103, 56, 32, 103, 43, 56, 32, 97, 56, 32,
    98, 56, 32, 99, 50, 32, 114, 52, 32, 102, 43, 50, 32, 99, 56, 32, 99, 56,
    32, 103, 52, 32, 114, 56>>

\* A null score pointer (no character has a negative code).
NULL_MML == <<-1>>

\* "c8 d-8 r4", "C8 D-8 R4", "c4", "   |  ", "p<TAB>|G#1r00"
ScoreC8Dm8R4      == <<99, 56, 32, 100, 45, 56, 32, 114, 52>>
ScoreC8Dm8R4Upper == <<67, 56, 32, 68, 45, 56, 32, 82, 52>>
ScoreC4           == <<99, 52>>
ScoreSeparators   == <<32, 32, 32, 124, 32, 32>>
ScoreMixed        == <<112, 9, 124, 71, 35, 49, 114, 48, 48>>
\* "r2001 c9999"
ScoreLong         == <<114, 50, 48, 48, 49, 32, 99, 57, 57, 57, 57>>
\* "c+-8", "c##"
ScoreTwoModifiers == <<99, 43, 45, 56>>
ScoreTwoSharps    == <<99, 35, 35>>

\* c B r + - 0 1 space x
Alphabet == {99, 66, 114, 43, 45, 48, 49, 32, 120}

RECURSIVE SeqsUpTo(_, _)
SeqsUpTo(S, n) ==
  IF n = 0 THEN {<<>>}
  ELSE LET shorter == SeqsUpTo(S, n - 1)
       IN  shorter \cup {Append(s, x) : s \in {t \in shorter : Len(t) = n - 1}, x \in S}

NamedScores ==
  {demo_mml, ScoreC8Dm8R4, ScoreC8Dm8R4Upper, ScoreC4, ScoreSeparators, ScoreMixed,
   ScoreLong, ScoreTwoModifiers, ScoreTwoSharps}

Scores == SeqsUpTo(Alphabet, MaxScoreLen) \cup NamedScores \cup {NULL_MML}

LiveScores == SeqsUpTo(Alphabet, MaxLiveLen) \cup NamedScores \cup {NULL_MML}


(***************************************************************************)
(* State.                                                                  *)
(***************************************************************************)
VARIABLES
  pc,           \* position of the face: "idle" between host calls, else a
                \* statement of mml_player_face_loop / mml_play_blocking
  is_playing,   \* mml_player_state_t.is_playing
  event,        \* the last host call dispatched to the face
  ret,          \* what that call returned ("none" while it runs)
  mml,          \* the score the face plays (demo_mml in the shipped face)
  p,            \* cursor into mml (1-based index of *p)
  c,            \* upper-cased token letter
  accidental,   \* +1, 0, -1
  is_rest,      \* 1 for R / P
  len,          \* note-length denominator after defaulting
  dur_ms,       \* uint32_t duration of the token
  octave,       \* uint8_t octave of the piece
  display,      \* the ten character positions of the LCD
  sharp,        \* pixel (0, 12)
  flat,         \* pixel (0, 15)
  ms,           \* argument of mml_delay_ms
  elapsed,      \* its uint16_t elapsed counter
  sec_changed,  \* the RTC seconds field differs from start.unit.second
  sec_seen,     \* history: changes of the seconds field the current / last
                \* call of mml_delay_ms has observed
  buzzer,       \* the last command given to the buzzer: "none", "off", "note"
  tokens,       \* history: the tokens scanned by the current / last playback
  cmds,         \* history: the hardware commands it issued
  pending,            \* the input event raised while the current / last
                      \* playback ran, "none" if there was none
  fn_args,            \* arguments of a function called on its own
  fn_result,          \* and what it returned (<<>> before the call)
  rtc_epoch,          \* tide face: the RTC as unix time
  next_update_epoch,  \* tide_lunar_state_t.next_update_epoch
  last_update_epoch,  \* history: rtc_epoch at the last _update_now (-1: none)
  tide_event          \* the last host call dispatched to the tide face

vars == <<pc, is_playing, event, ret, mml, p, c, accidental, is_rest, len,
          dur_ms, octave, display, sharp, flat, ms, elapsed, sec_changed,
          sec_seen,
          buzzer, tokens, cmds, pending, fn_args, fn_result,
          rtc_epoch, next_update_epoch, last_update_epoch, tide_event>>

locals   == <<p, c, accidental, is_rest, len, dur_ms, octave>>
delayv   == <<ms, elapsed, sec_changed, sec_seen>>
lcd      == <<display, sharp, flat>>
history  == <<tokens, cmds>>
fnv      == <<fn_args, fn_result>>
tidev    == <<rtc_epoch, next_update_epoch, last_update_epoch, tide_event>>
\* What the MML player face's statements never touch.
aux      == <<pending, fnv, tidev>>
\* All of the MML player face's own state.
mmlv     == <<pc, is_playing, event, ret, mml, locals, delayv, lcd, buzzer,
              history>>

(***************************************************************************)
(* Hardware primitives, as the commands the face issues and their effect   *)
(* on the modelled LCD.                                                    *)
(***************************************************************************)
DisplayWidth == 10
BlankDisplay == [i \in 0..(DisplayWidth - 1) |-> CH_SPACE]

\* watch_display_string(s, pos): s is written from position pos on.
watch_display_string(d, s, pos) ==
  [i \in 0..(DisplayWidth - 1) |->
     IF i >= pos /\ i < pos + Len(s) THEN s[i - pos + 1] ELSE d[i]]

\* display_note_char(ch): the lower-cased character goes to digit 0.
display_note_char(d, ch) == watch_display_string(d, <<tolower(ch)>>, 0)

SEG_SHARP == 12
SEG_FLAT  == 15

\* History records: op, two integer arguments, and the number of the token
\* being rendered (0 for the cleanup after the tune).
Cmd(op, a, b) == [op |-> op, a |-> a, b |-> b, tok |-> Len(tokens)]
CleanupCmd(op, a, b) == [op |-> op, a |-> a, b |-> b, tok |-> 0]

\* "play", "done", "mu ", "sic"
STR_play == <<112, 108, 97, 121>>
STR_done == <<100, 111, 110, 101>>
STR_mu   == <<109, 117, 32>>
STR_sic  == <<115, 105, 99>>

(***************************************************************************)
(* note_from_mml                                                           *)
(***************************************************************************)
BUZZER_NOTE_REST == 87
NOTE_INDEX_MAX   == 86
SEMITONES        == 12

NOTE_INDEX(oct, semitone) == oct * 12 + semitone - (1 * 12 + 9)

BaseSemitone(letter) ==
  CASE letter = CH_C -> 0
    [] letter = CH_D -> 2
    [] letter = CH_E -> 4
    [] letter = CH_F -> 5
    [] letter = CH_G -> 7
    [] letter = CH_A -> 9
    [] letter = CH_B -> 11

\* The resolver without its clamp to the table.
note_from_mml_NoClamp(letter, acc, oct) ==
  IF letter \notin {CH_C, CH_D, CH_E, CH_F, CH_G, CH_A, CH_B}
  THEN BUZZER_NOTE_REST
  ELSE
    LET s0 == BaseSemitone(letter) + acc
        s1 == IF s0 < 0 THEN s0 + SEMITONES ELSE s0
        o1 == IF s0 < 0 /\ oct > 1 THEN oct - 1 ELSE oct
        s2 == IF s1 >= SEMITONES THEN s1 - SEMITONES ELSE s1
        o2 == IF s1 >= SEMITONES /\ o1 < 8 THEN o1 + 1 ELSE o1
    IN  NOTE_INDEX(o2, s2)

\* The resolver borrowing from the octave below without the floor test.
note_from_mml_NoFloor(letter, acc, oct) ==
  IF letter \notin {CH_C, CH_D, CH_E, CH_F, CH_G, CH_A, CH_B}
  THEN BUZZER_NOTE_REST
  ELSE
    LET s0 == BaseSemitone(letter) + acc
        s1 == IF s0 < 0 THEN s0 + SEMITONES ELSE s0
        o1 == IF s0 < 0 THEN oct - 1 ELSE oct
        s2 == IF s1 >= SEMITONES THEN s1 - SEMITONES ELSE s1
        o2 == IF s1 >= SEMITONES /\ o1 < 8 THEN o1 + 1 ELSE o1
        idx == NOTE_INDEX(o2, s2)
        lo  == IF idx < 0 THEN 0 ELSE idx
    IN  IF lo > NOTE_INDEX_MAX THEN NOTE_INDEX_MAX ELSE lo

note_from_mml(letter, acc, oct) ==
  IF letter \notin {CH_C, CH_D, CH_E, CH_F, CH_G, CH_A, CH_B}
  THEN BUZZER_NOTE_REST
  ELSE
    LET s0 == BaseSemitone(letter) + acc
        \* if (semitone < 0) { semitone += 12; if (octave > 1) octave--; }
        s1 == IF s0 < 0 THEN s0 + SEMITONES ELSE s0
        o1 == IF s0 < 0 /\ oct > 1 THEN oct - 1 ELSE oct
        \* if (semitone >= 12) { semitone -= 12; if (octave < 8) octave++; }
        s2 == IF s1 >= SEMITONES THEN s1 - SEMITONES ELSE s1
        o2 == IF s1 >= SEMITONES /\ o1 < 8 THEN o1 + 1 ELSE o1
        idx == NOTE_INDEX(o2, s2)
        lo  == IF idx < 0 THEN 0 ELSE idx
    IN  IF lo > NOTE_INDEX_MAX THEN NOTE_INDEX_MAX ELSE lo

(***************************************************************************)
(* The scanner of mml_play_blocking.                                       *)
(***************************************************************************)
TEMPO_BPM   == 120
DEFAULT_LEN == 4
START_OCTAVE == 4
MS_PER_MINUTE == 60000

IsSeparator(ch) == ch = CH_SPACE \/ ch = CH_TAB \/ ch = CH_BAR

\* while (*p == ' ' || *p == '\t' || *p == '|') p++;
RECURSIVE SkipSeparators(_, _)
SkipSeparators(s, q) ==
  IF IsSeparator(At(s, q)) THEN SkipSeparators(s, q + 1) ELSE q

IsRestLetter(ch) == ch = CH_R \/ ch = CH_P

\* The note-letter test with the range A..Z.
IsNoteLetter_Wide(ch) == ch >= CH_A /\ ch <= CH_Z

IsNoteLetter(ch) == ch >= CH_A /\ ch <= CH_G

\* The accidental parsed without consuming its character.
ParseAccidental_NotConsumed(s, q) ==
  IF At(s, q) = CH_PLUS \/ At(s, q) = CH_HASH THEN [acc |-> 1, p |-> q]
  ELSE IF At(s, q) = CH_MINUS                 THEN [acc |-> -1, p |-> q]
  ELSE [acc |-> 0, p |-> q]

\* The accidental parsed in a loop: every modifier character after the note
\* letter is consumed and added.
RECURSIVE ParseAccidental_Repeated(_, _)
ParseAccidental_Repeated(s, q) ==
  IF At(s, q) = CH_PLUS \/ At(s, q) = CH_HASH
  THEN LET r == ParseAccidental_Repeated(s, q + 1)
       IN  [acc |-> r.acc + 1, p |-> r.p]
  ELSE IF At(s, q) = CH_MINUS
  THEN LET r == ParseAccidental_Repeated(s, q + 1)
       IN  [acc |-> r.acc - 1, p |-> r.p]
  ELSE [acc |-> 0, p |-> q]

\* The accidental after a note letter at cursor q, and the cursor after it.
ParseAccidental(s, q) ==
  IF At(s, q) = CH_PLUS \/ At(s, q) = CH_HASH THEN [acc |-> 1, p |-> q + 1]
  ELSE IF At(s, q) = CH_MINUS                 THEN [acc |-> -1, p |-> q + 1]
  ELSE [acc |-> 0, p |-> q]

\* while (isdigit(*p)) len = len * 10 + (*p++ - '0');
\* len is an int; the digit runs of the modelled scores (at most 4 digits)
\* stay far below its range.
RECURSIVE ParseLen(_, _, _)
ParseLen(s, q, n) ==
  IF isdigit(At(s, q)) THEN ParseLen(s, q + 1, n * 10 + (At(s, q) - CH_0))
  ELSE [len |-> n, p |-> q]

\* The defaulting with "<" for "<=".
EffectiveLen_Strict(n) == IF n < 0 THEN DEFAULT_LEN ELSE n

\* if (len <= 0) len = default_len;
EffectiveLen(n) == IF n <= 0 THEN DEFAULT_LEN ELSE n

\* quarter_ms = 60000UL / tempo_bpm;  dur_ms = (4UL * quarter_ms) / len;
QuarterMs == MS_PER_MINUTE \div TEMPO_BPM
\* The duration with the division done first.
DurMs_DivideFirst(n) == 4 * (QuarterMs \div n)

\* The duration with the length multiplied in instead of divided out.
DurMs_Multiplied(n) == (4 * QuarterMs) * n

DurMs(n) == (4 * QuarterMs) \div n

\* The two statements with the division by the length done first.
DurationMs_DivideFirst(tempo, n) == 4 * ((MS_PER_MINUTE \div tempo) \div n)

\* The same two statements for any tempo_bpm; uint32_t cannot overflow
\* (4 * 60000 < 2^32).
DurationMs(tempo, n) == (4 * (MS_PER_MINUTE \div tempo)) \div n

\* The note lengths of the notation: whole note to thirty-second note.
NoteLengths == <<1, 2, 4, 8, 16, 32>>

(***************************************************************************)
(* Initial state: after mml_player_face_setup (the context is zeroed).     *)
(***************************************************************************)
DeadLocals ==
  /\ p = 0 /\ c = 0 /\ accidental = 0 /\ is_rest = 0
  /\ len = 0 /\ dur_ms = 0 /\ octave = 0

NoDelay == ms = 0 /\ elapsed = 0 /\ sec_changed = FALSE /\ sec_seen = 0

\* The tide face is not part of the run.
TideUnused ==
  /\ rtc_epoch = 0
  /\ next_update_epoch = 0
  /\ last_update_epoch = -1
  /\ tide_event = "none"

Init ==
  /\ pc = "idle"
  /\ is_playing = FALSE
  /\ event = "setup"
  /\ ret = "void"
  /\ mml \in Scores
  /\ DeadLocals
  /\ NoDelay
  /\ display = BlankDisplay
  /\ sharp = FALSE
  /\ flat = FALSE
  /\ buzzer = "none"
  /\ tokens = <<>>
  /\ cmds = <<>>
  /\ pending = "none"
  /\ fn_args = <<>>
  /\ fn_result = <<>>
  /\ TideUnused

(***************************************************************************)
(* mml_player_face_activate, mml_player_face_resign                        *)
(***************************************************************************)
Activate ==
  /\ UNCHANGED aux
  /\ pc = "idle"
  /\ is_playing' = FALSE
  /\ display' = watch_display_string(watch_display_string(display, STR_mu, 0),
                                     STR_sic, 7)
  /\ event' = "activate"
  /\ ret' = "void"
  /\ UNCHANGED <<pc, mml, locals, delayv, sharp, flat, buzzer, history>>

Resign ==
  /\ UNCHANGED aux
  /\ pc = "idle"
  /\ buzzer' = IF is_playing THEN "off" ELSE buzzer
  /\ event' = "resign"
  /\ ret' = "void"
  /\ UNCHANGED <<pc, is_playing, mml, locals, delayv, lcd, history>>

(***************************************************************************)
(* mml_player_face_loop                                                    *)
(***************************************************************************)
OtherEvents == {"EVENT_ALARM_BUTTON_UP", "EVENT_TICK"}

\* case EVENT_ACTIVATE: break;  ... return true;
EventActivate ==
  /\ UNCHANGED aux
  /\ pc = "idle"
  /\ event' = "EVENT_ACTIVATE"
  /\ ret' = "true"
  /\ UNCHANGED <<pc, is_playing, mml, locals, delayv, lcd, buzzer, history>>

\* The handler without its is_playing guard.
LightButtonUp_Unguarded ==
  /\ UNCHANGED <<fnv, tidev>>
  /\ pc = "idle"
  /\ event' = "EVENT_LIGHT_BUTTON_UP"
  /\ is_playing' = TRUE
  /\ display' = watch_display_string(BlankDisplay, STR_play, 5)
  /\ sharp' = FALSE
  /\ flat' = FALSE
  /\ tokens' = <<>>
  /\ cmds' = <<>>
  /\ pending' = "none"
  /\ ret' = "none"
  /\ pc' = "play_call"
  /\ UNCHANGED <<mml, locals, delayv, buzzer>>

\* case EVENT_LIGHT_BUTTON_UP: the guard, and the statements up to the call
\* of mml_play_blocking.
LightButtonUp ==
  /\ UNCHANGED <<fnv, tidev>>
  /\ pc = "idle"
  /\ event' = "EVENT_LIGHT_BUTTON_UP"
  /\ IF ~is_playing
     THEN /\ is_playing' = TRUE
          /\ display' = watch_display_string(BlankDisplay, STR_play, 5)
          /\ sharp' = FALSE
          /\ flat' = FALSE
          /\ tokens' = <<>>
          /\ cmds' = <<>>
          /\ pending' = "none"
          /\ ret' = "none"
          /\ pc' = "play_call"
          /\ UNCHANGED <<mml, locals, delayv, buzzer>>
     ELSE /\ ret' = "true"
          /\ UNCHANGED <<pc, is_playing, mml, locals, delayv, lcd, buzzer, history,
                         pending>>

\* case EVENT_MODE_BUTTON_UP: return movement_default_loop_handler(...);
ModeButtonUp ==
  /\ UNCHANGED aux
  /\ pc = "idle"
  /\ event' = "EVENT_MODE_BUTTON_UP"
  /\ ret' = "movement_default_loop_handler"
  /\ UNCHANGED <<pc, is_playing, mml, locals, delayv, lcd, buzzer, history>>

\* The default branch clearing the playing flag.
DefaultEvent_ClearsPlaying ==
  /\ UNCHANGED aux
  /\ pc = "idle"
  /\ \E e \in OtherEvents : event' = e
  /\ ret' = "true"
  /\ is_playing' = FALSE
  /\ UNCHANGED <<pc, mml, locals, delayv, lcd, buzzer, history>>

\* default: break;  ... return true;
DefaultEvent ==
  /\ UNCHANGED aux
  /\ pc = "idle"
  /\ \E e \in OtherEvents : event' = e
  /\ ret' = "true"
  /\ UNCHANGED <<pc, is_playing, mml, locals, delayv, lcd, buzzer, history>>

\* watch_display_string("done", 5);
ShowDone ==
  /\ UNCHANGED aux
  /\ pc = "show_done"
  /\ display' = watch_display_string(display, STR_done, 5)
  /\ pc' = "finish"
  /\ UNCHANGED <<is_playing, event, ret, mml, locals, delayv, sharp, flat,
                 buzzer, history>>

\* The handler returning without clearing the playing flag.
Finish_KeepsPlaying ==
  /\ UNCHANGED aux
  /\ pc = "finish"
  /\ ret' = "true"
  /\ pc' = "idle"
  /\ UNCHANGED <<is_playing, event, mml, locals, delayv, lcd, buzzer, history>>

\* state->is_playing = false;  break;  return true;
Finish ==
  /\ UNCHANGED aux
  /\ pc = "finish"
  /\ is_playing' = FALSE
  /\ ret' = "true"
  /\ pc' = "idle"
  /\ UNCHANGED <<event, mml, locals, delayv, lcd, buzzer, history>>

(***************************************************************************)
(* mml_play_blocking                                                       *)
(***************************************************************************)
Issue(op, a, b) == cmds' = Append(cmds, Cmd(op, a, b))
IssueCleanup(op, a, b) == cmds' = Append(cmds, CleanupCmd(op, a, b))

\* The locals of one loop iteration are dead outside it.
NextIteration(q) ==
  /\ p' = q
  /\ c' = 0 /\ accidental' = 0 /\ is_rest' = 0 /\ len' = 0 /\ dur_ms' = 0
  /\ UNCHANGED octave

\* if (!mml) return;  tempo, default_len, octave = 4, p = mml
PlayEnter ==
  /\ UNCHANGED aux
  /\ pc = "play_call"
  /\ IF mml = NULL_MML
     THEN /\ pc' = "show_done"
          /\ UNCHANGED locals
     ELSE /\ pc' = "scan"
          /\ p' = 1
          /\ octave' = START_OCTAVE
          /\ UNCHANGED <<c, accidental, is_rest, len, dur_ms>>
  /\ UNCHANGED <<is_playing, event, ret, mml, delayv, lcd, buzzer, history>>

\* while (*p) { skip separators; if (!*p) break;
ScanEnd ==
  /\ UNCHANGED aux
  /\ pc = "scan"
  /\ LET q == SkipSeparators(mml, p) IN
       /\ At(mml, q) = NUL
       /\ NextIteration(q)
  /\ pc' = "end_display"
  /\ UNCHANGED <<is_playing, event, ret, mml, delayv, lcd, buzzer, history>>

\* The skip without the cursor's increment.
ScanSkip_NoAdvance ==
  /\ UNCHANGED aux
  /\ pc = "scan"
  /\ LET q  == SkipSeparators(mml, p)
         ch == toupper(At(mml, q))
     IN  /\ At(mml, q) # NUL
         /\ ~IsRestLetter(ch)
         /\ ~IsNoteLetter(ch)
         /\ NextIteration(q)
  /\ pc' = "scan"
  /\ UNCHANGED <<is_playing, event, ret, mml, delayv, lcd, buzzer, history>>

\* c = toupper(*p++); neither a rest nor a note letter: continue;
ScanSkip ==
  /\ UNCHANGED aux
  /\ pc = "scan"
  /\ LET q  == SkipSeparators(mml, p)
         ch == toupper(At(mml, q))
     IN  /\ At(mml, q) # NUL
         /\ ~IsRestLetter(ch)
         /\ ~IsNoteLetter(ch)
         /\ NextIteration(q + 1)
  /\ pc' = "scan"
  /\ UNCHANGED <<is_playing, event, ret, mml, delayv, lcd, buzzer, history>>

\* c = toupper(*p++); rest or note letter, accidental, length, duration.
\* A division by a zero length traps (pc = "fault").
ScanToken ==
  /\ UNCHANGED aux
  /\ pc = "scan"
  /\ LET q   == SkipSeparators(mml, p)
         ch  == toupper(At(mml, q))
         pa  == IF IsRestLetter(ch) THEN [acc |-> 0, p |-> q + 1]
                ELSE ParseAccidental(mml, q + 1)
         pl  == ParseLen(mml, pa.p, 0)
         n   == EffectiveLen(pl.len)
     IN  /\ IsRestLetter(ch) \/ IsNoteLetter(ch)
         /\ c' = ch
         /\ accidental' = pa.acc
         /\ is_rest' = IF IsRestLetter(ch) THEN 1 ELSE 0
         /\ p' = pl.p
         /\ len' = n
         /\ tokens' = Append(tokens,
                        [kind |-> IF IsRestLetter(ch) THEN "rest" ELSE "note",
                         letter |-> ch, acc |-> pa.acc,
                         explicit |-> pl.len, len |-> n])
         /\ IF n = 0
            THEN /\ pc' = "fault"
                 /\ UNCHANGED dur_ms
            ELSE /\ pc' = "clear_sharp"
                 /\ dur_ms' = DurMs(n)
  /\ UNCHANGED <<is_playing, event, ret, mml, octave, delayv, lcd, buzzer, cmds>>

\* watch_clear_pixel(0, 12); before drawing the token
ClearSharp ==
  /\ UNCHANGED aux
  /\ pc = "clear_sharp"
  /\ sharp' = FALSE
  /\ Issue("clear_pixel", 0, SEG_SHARP)
  /\ pc' = "clear_flat"
  /\ UNCHANGED <<is_playing, event, ret, mml, locals, delayv, display, flat,
                 buzzer, tokens>>

\* watch_clear_pixel(0, 15);  if (is_rest) ...
ClearFlat ==
  /\ UNCHANGED aux
  /\ pc = "clear_flat"
  /\ flat' = FALSE
  /\ Issue("clear_pixel", 0, SEG_FLAT)
  /\ pc' = IF is_rest # 0 THEN "rest_display" ELSE "note_display"
  /\ UNCHANGED <<is_playing, event, ret, mml, locals, delayv, display, sharp,
                 buzzer, tokens>>

\* display_note_char(' ');
RestDisplay ==
  /\ UNCHANGED aux
  /\ pc = "rest_display"
  /\ display' = display_note_char(display, CH_SPACE)
  /\ Issue("note_char", tolower(CH_SPACE), 0)
  /\ pc' = "rest_buzzer_off"
  /\ UNCHANGED <<is_playing, event, ret, mml, locals, delayv, sharp, flat,
                 buzzer, tokens>>

\* The rest without its watch_set_buzzer_off.
RestBuzzerOff_Missing ==
  /\ UNCHANGED aux
  /\ pc = "rest_buzzer_off"
  /\ pc' = "delay_call"
  /\ UNCHANGED <<is_playing, event, ret, mml, locals, delayv, lcd, buzzer,
                 history>>

\* watch_set_buzzer_off();
RestBuzzerOff ==
  /\ UNCHANGED aux
  /\ pc = "rest_buzzer_off"
  /\ buzzer' = "off"
  /\ Issue("buzzer_off", 0, 0)
  /\ pc' = "delay_call"
  /\ UNCHANGED <<is_playing, event, ret, mml, locals, delayv, lcd, tokens>>

\* display_note_char(c);
NoteDisplay ==
  /\ UNCHANGED aux
  /\ pc = "note_display"
  /\ display' = display_note_char(display, c)
  /\ Issue("note_char", tolower(c), 0)
  /\ pc' = "note_pixel"
  /\ UNCHANGED <<is_playing, event, ret, mml, locals, delayv, sharp, flat,
                 buzzer, tokens>>

\* The accidental pixels with sharp and flat exchanged.
NotePixel_Swapped ==
  /\ UNCHANGED aux
  /\ pc = "note_pixel"
  /\ IF accidental > 0
     THEN /\ flat' = TRUE
          /\ Issue("set_pixel", 0, SEG_FLAT)
          /\ UNCHANGED sharp
     ELSE IF accidental < 0
     THEN /\ sharp' = TRUE
          /\ Issue("set_pixel", 0, SEG_SHARP)
          /\ UNCHANGED flat
     ELSE UNCHANGED <<sharp, flat, cmds>>
  /\ pc' = "note_play"
  /\ UNCHANGED <<is_playing, event, ret, mml, locals, delayv, display,
                 buzzer, tokens>>

\* if (accidental > 0) watch_set_pixel(0, 12);
\* else if (accidental < 0) watch_set_pixel(0, 15);
NotePixel ==
  /\ UNCHANGED aux
  /\ pc = "note_pixel"
  /\ IF accidental > 0
     THEN /\ sharp' = TRUE
          /\ Issue("set_pixel", 0, SEG_SHARP)
          /\ UNCHANGED flat
     ELSE IF accidental < 0
     THEN /\ flat' = TRUE
          /\ Issue("set_pixel", 0, SEG_FLAT)
          /\ UNCHANGED sharp
     ELSE UNCHANGED <<sharp, flat, cmds>>
  /\ pc' = "note_play"
  /\ UNCHANGED <<is_playing, event, ret, mml, locals, delayv, display,
                 buzzer, tokens>>

\* The call of note_from_mml writing its rolled-over octave back to the
\* caller's variable.
NotePlay_OctaveByRef ==
  /\ UNCHANGED aux
  /\ pc = "note_play"
  /\ buzzer' = "note"
  /\ Issue("play_note", note_from_mml(c, accidental, octave), dur_ms % UINT16_MOD)
  /\ pc' = "post_clear_sharp"
  /\ LET s0 == BaseSemitone(c) + accidental
     IN  octave' = IF s0 < 0 /\ octave > 1 THEN octave - 1
                   ELSE IF s0 >= SEMITONES /\ octave < 8 THEN octave + 1
                   ELSE octave
  /\ UNCHANGED <<is_playing, event, ret, mml, p, c, accidental, is_rest, len,
                 dur_ms, delayv, lcd, tokens>>

\* note = note_from_mml(c, accidental, octave);
\* watch_buzzer_play_note(note, (uint16_t)dur_ms);   (blocks, then returns)
NotePlay ==
  /\ UNCHANGED aux
  /\ pc = "note_play"
  /\ buzzer' = "note"
  /\ Issue("play_note", note_from_mml(c, accidental, octave), dur_ms % UINT16_MOD)
  /\ pc' = "post_clear_sharp"
  /\ UNCHANGED <<is_playing, event, ret, mml, locals, delayv, lcd, tokens>>

\* watch_clear_pixel(0, 12); after the note
PostClearSharp ==
  /\ UNCHANGED aux
  /\ pc = "post_clear_sharp"
  /\ sharp' = FALSE
  /\ Issue("clear_pixel", 0, SEG_SHARP)
  /\ pc' = "post_clear_flat"
  /\ UNCHANGED <<is_playing, event, ret, mml, locals, delayv, display, flat,
                 buzzer, tokens>>

\* The loop body polling for an ALARM press and leaving the loop on one.
PostClearFlat_StopOnAlarm ==
  /\ UNCHANGED aux
  /\ pc = "post_clear_flat"
  /\ flat' = FALSE
  /\ Issue("clear_pixel", 0, SEG_FLAT)
  /\ NextIteration(p)
  /\ pc' = IF pending = "EVENT_ALARM_BUTTON_UP" THEN "end_display" ELSE "scan"
  /\ UNCHANGED <<is_playing, event, ret, mml, delayv, display, sharp,
                 buzzer, tokens>>

\* watch_clear_pixel(0, 15); end of the loop body
PostClearFlat ==
  /\ UNCHANGED aux
  /\ pc = "post_clear_flat"
  /\ flat' = FALSE
  /\ Issue("clear_pixel", 0, SEG_FLAT)
  /\ NextIteration(p)
  /\ pc' = "scan"
  /\ UNCHANGED <<is_playing, event, ret, mml, delayv, display, sharp,
                 buzzer, tokens>>

(***************************************************************************)
(* mml_delay_ms.  The RTC is read only to compare its seconds field with   *)
(* start.unit.second, so the clock is the flag sec_changed: the RTC sets   *)
(* it when the second advances and "start = now" clears it.  The poll loop *)
(* is far faster than the 1 Hz clock, so the seconds field never comes     *)
(* round to the same value between two polls.                              *)
(***************************************************************************)
DELAY_STEP_MS == 1000

DelayDone ==
  /\ ms' = 0 /\ elapsed' = 0 /\ sec_changed' = FALSE
  /\ NextIteration(p)
  /\ pc' = "scan"

\* mml_delay_ms((uint16_t)dur_ms);  start = now();  elapsed = 0;
DelayCall ==
  /\ UNCHANGED aux
  /\ pc = "delay_call"
  /\ ms' = dur_ms % UINT16_MOD
  /\ elapsed' = 0
  /\ sec_changed' = FALSE
  /\ sec_seen' = 0
  /\ Issue("delay", dur_ms % UINT16_MOD, 0)
  /\ pc' = "delay_loop"
  /\ UNCHANGED <<is_playing, event, ret, mml, locals, lcd, buzzer, tokens>>

\* The RTC's seconds field advances while the delay polls it.
RtcTick ==
  /\ UNCHANGED aux
  /\ pc = "delay_loop"
  /\ ~sec_changed
  /\ sec_changed' = TRUE
  /\ UNCHANGED <<pc, is_playing, event, ret, mml, locals, ms, elapsed,
                 sec_seen, lcd, buzzer, history>>

\* while (elapsed < ms) fails: return;  continue;
DelayReturn ==
  /\ UNCHANGED aux
  /\ pc = "delay_loop"
  /\ ~(elapsed < ms)
  /\ DelayDone
  /\ UNCHANGED sec_seen
  /\ UNCHANGED <<is_playing, event, ret, mml, lcd, buzzer, history>>

\* The loop body leaving the loop at the first change of the second, whatever
\* ms is.
DelayPoll_BreakAlways ==
  /\ UNCHANGED aux
  /\ pc = "delay_loop"
  /\ elapsed < ms
  /\ IF sec_changed
     THEN /\ sec_seen' = sec_seen + 1
          /\ DelayDone
     ELSE UNCHANGED <<pc, delayv, locals>>
  /\ UNCHANGED <<is_playing, event, ret, mml, lcd, buzzer, history>>

\* One pass of the loop body: now = rtc; if the second changed: start = now;
\* if (ms <= 1000) break; elapsed += 1000;
DelayPoll ==
  /\ UNCHANGED aux
  /\ pc = "delay_loop"
  /\ elapsed < ms
  /\ IF sec_changed
     THEN /\ sec_seen' = sec_seen + 1
          /\ IF ms <= DELAY_STEP_MS
             THEN DelayDone
             ELSE /\ elapsed' = (elapsed + DELAY_STEP_MS) % UINT16_MOD
                  /\ sec_changed' = FALSE
                  /\ UNCHANGED <<pc, ms, locals>>
     ELSE UNCHANGED <<pc, delayv, locals>>
  /\ UNCHANGED <<is_playing, event, ret, mml, lcd, buzzer, history>>

(***************************************************************************)
(* cleanup after tune                                                      *)
(***************************************************************************)
\* display_note_char(' ');
EndDisplay ==
  /\ UNCHANGED aux
  /\ pc = "end_display"
  /\ display' = display_note_char(display, CH_SPACE)
  /\ IssueCleanup("note_char", tolower(CH_SPACE), 0)
  /\ pc' = "end_clear_sharp"
  /\ UNCHANGED <<is_playing, event, ret, mml, locals, delayv, sharp, flat,
                 buzzer, tokens>>

\* watch_clear_pixel(0, 12);
EndClearSharp ==
  /\ UNCHANGED aux
  /\ pc = "end_clear_sharp"
  /\ sharp' = FALSE
  /\ IssueCleanup("clear_pixel", 0, SEG_SHARP)
  /\ pc' = "end_clear_flat"
  /\ UNCHANGED <<is_playing, event, ret, mml, locals, delayv, display, flat,
                 buzzer, tokens>>

\* The cleanup without its second watch_clear_pixel.
EndClearFlat_Missing ==
  /\ UNCHANGED aux
  /\ pc = "end_clear_flat"
  /\ pc' = "end_buzzer_off"
  /\ UNCHANGED <<is_playing, event, ret, mml, locals, delayv, lcd, buzzer,
                 history>>

\* watch_clear_pixel(0, 15);
EndClearFlat ==
  /\ UNCHANGED aux
  /\ pc = "end_clear_flat"
  /\ flat' = FALSE
  /\ IssueCleanup("clear_pixel", 0, SEG_FLAT)
  /\ pc' = "end_buzzer_off"
  /\ UNCHANGED <<is_playing, event, ret, mml, locals, delayv, display, sharp,
                 buzzer, tokens>>

\* watch_set_buzzer_off();  and mml_play_blocking returns
EndBuzzerOff ==
  /\ UNCHANGED aux
  /\ pc = "end_buzzer_off"
  /\ buzzer' = "off"
  /\ IssueCleanup("buzzer_off", 0, 0)
  /\ p' = 0 /\ c' = 0 /\ accidental' = 0 /\ is_rest' = 0
  /\ len' = 0 /\ dur_ms' = 0 /\ octave' = 0
  /\ pc' = "show_done"
  /\ UNCHANGED <<is_playing, event, ret, mml, delayv, lcd, tokens>>

(***************************************************************************)
(* Specifications.                                                         *)
(***************************************************************************)
\* The statements of one handler invocation, once it has started playing.
Run ==
  \/ PlayEnter
  \/ ScanEnd
  \/ ScanSkip
  \/ ScanToken
  \/ ClearSharp
  \/ ClearFlat
  \/ RestDisplay
  \/ RestBuzzerOff
  \/ DelayCall
  \/ DelayReturn
  \/ DelayPoll
  \/ NoteDisplay
  \/ NotePixel
  \/ NotePlay
  \/ PostClearSharp
  \/ PostClearFlat
  \/ EndDisplay
  \/ EndClearSharp
  \/ EndClearFlat
  \/ EndBuzzerOff
  \/ ShowDone
  \/ Finish

\* The calls the host makes between handler invocations.
Host ==
  \/ Activate
  \/ Resign
  \/ EventActivate
  \/ LightButtonUp
  \/ ModeButtonUp
  \/ DefaultEvent

Next == Host \/ Run \/ RtcTick

\* The watch as the host runs it.
Spec == Init /\ [][Next]_vars

\* The processor keeps executing the handler and the RTC keeps counting.
LiveInit == Init /\ mml \in LiveScores

LiveSpec ==
  /\ LiveInit
  /\ [][Next]_vars
  /\ WF_vars(Run)
  /\ WF_vars(RtcTick)

\* The events the host can raise while a handler is still running.
InputEvents ==
  {"EVENT_LIGHT_BUTTON_UP", "EVENT_MODE_BUTTON_UP", "EVENT_ALARM_BUTTON_UP",
   "EVENT_TICK"}

\* A button is pressed or a tick falls due while mml_player_face_loop has not
\* returned: the event waits for the handler's return, the handler's state
\* is untouched.
Interrupt ==
  /\ pc # "idle"
  /\ \E e \in InputEvents :
       /\ pending # e
       /\ pending' = e
  /\ UNCHANGED <<mmlv, fnv, tidev>>

\* The watch with input events arriving during playback.
SpecEvents == LiveInit /\ [][Next \/ Interrupt]_vars

\* The face after setup with the demo tune, no handler running.
FaceAtRest ==
  /\ pc = "idle"
  /\ is_playing = FALSE
  /\ event = "setup"
  /\ ret = "void"
  /\ mml = demo_mml
  /\ DeadLocals
  /\ NoDelay
  /\ display = BlankDisplay
  /\ sharp = FALSE
  /\ flat = FALSE
  /\ buzzer = "none"
  /\ tokens = <<>>
  /\ cmds = <<>>
  /\ pending = "none"

\* The duration expression as a function of the tempo: evaluated for a tempo
\* of 1..MaxTempo at every note length.
DurationInit ==
  /\ FaceAtRest
  /\ TideUnused
  /\ fn_args \in {<<t>> : t \in 1..MaxTempo}
  /\ fn_result = <<>>

DurationCall ==
  /\ fn_result = <<>>
  /\ fn_result' = [i \in 1..Len(NoteLengths) |->
                     DurationMs(fn_args[1], NoteLengths[i])]
  /\ UNCHANGED <<mmlv, pending, fn_args, tidev>>

SpecDuration == DurationInit /\ [][DurationCall]_vars

(***************************************************************************)
(* The tide face (tide_lunar_face.c): when it recomputes its display.      *)
(***************************************************************************)
\* #define TIDE_LUNAR_RECALC_SECONDS 60
TIDE_LUNAR_RECALC_SECONDS == 60

\* After tide_lunar_face_setup: next_update_epoch = 0; the RTC shows any
\* second of the first minute.
TideInit ==
  /\ FaceAtRest
  /\ fn_args = <<>>
  /\ fn_result = <<>>
  /\ rtc_epoch \in 0..(TIDE_LUNAR_RECALC_SECONDS - 1)
  /\ next_update_epoch = 0
  /\ last_update_epoch = -1
  /\ tide_event = "setup"

\* _update_now: the display is recomputed for the RTC's time, and
\* next_update_epoch = epoch - (epoch % TIDE_LUNAR_RECALC_SECONDS)
\*                           + TIDE_LUNAR_RECALC_SECONDS;
\* (the epochs followed, up to MaxEpoch + 60, are far below the range of
\* uint32_t, so the store and the cast of the comparison change nothing)
update_now ==
  /\ last_update_epoch' = rtc_epoch
  /\ next_update_epoch' =
       rtc_epoch - (rtc_epoch % TIDE_LUNAR_RECALC_SECONDS)
         + TIDE_LUNAR_RECALC_SECONDS

TideFaceActive == tide_event \notin {"setup", "resign"}

\* tide_lunar_face_activate
TideActivate ==
  /\ ~TideFaceActive
  /\ tide_event' = "activate"
  /\ update_now
  /\ UNCHANGED <<mmlv, pending, fnv, rtc_epoch>>

\* case EVENT_TICK: if ((uint32_t)epoch >= state->next_update_epoch)
\*                      _update_now(state);
TideTick ==
  /\ TideFaceActive
  /\ tide_event' = "EVENT_TICK"
  /\ IF rtc_epoch >= next_update_epoch
     THEN update_now
     ELSE UNCHANGED <<last_update_epoch, next_update_epoch>>
  /\ UNCHANGED <<mmlv, pending, fnv, rtc_epoch>>

\* case EVENT_MODE_BUTTON_UP: movement_move_to_next_face();
TideModeButtonUp ==
  /\ TideFaceActive
  /\ tide_event' = "EVENT_MODE_BUTTON_UP"
  /\ UNCHANGED <<mmlv, pending, fnv, rtc_epoch, next_update_epoch,
                 last_update_epoch>>

\* default: break;
TideDefaultEvent ==
  /\ TideFaceActive
  /\ tide_event' = "EVENT_ALARM_BUTTON_UP"
  /\ UNCHANGED <<mmlv, pending, fnv, rtc_epoch, next_update_epoch,
                 last_update_epoch>>

\* tide_lunar_face_resign: watch_stop_blink();
TideResign ==
  /\ TideFaceActive
  /\ tide_event' = "resign"
  /\ UNCHANGED <<mmlv, pending, fnv, rtc_epoch, next_update_epoch,
                 last_update_epoch>>

\* The RTC counts one second.
TideSecond ==
  /\ rtc_epoch < MaxEpoch
  /\ rtc_epoch' = rtc_epoch + 1
  /\ UNCHANGED <<mmlv, pending, fnv, next_update_epoch, last_update_epoch,
                 tide_event>>

TideNext ==
  \/ TideActivate
  \/ TideTick
  \/ TideModeButtonUp
  \/ TideDefaultEvent
  \/ TideResign
  \/ TideSecond

SpecTide == TideInit /\ [][TideNext]_vars

\* mml_player_face_loop as a function of the context it is handed: the
\* caller's is_playing may hold either value.
CtxInit ==
  /\ pc = "idle"
  /\ is_playing \in BOOLEAN
  /\ event = "setup"
  /\ ret = "void"
  /\ mml \in Scores
  /\ DeadLocals
  /\ NoDelay
  /\ display = BlankDisplay
  /\ sharp = FALSE
  /\ flat = FALSE
  /\ buzzer = "none"
  /\ tokens = <<>>
  /\ cmds = <<>>
  /\ pending = "none"
  /\ fn_args = <<>>
  /\ fn_result = <<>>
  /\ TideUnused

SpecLoopCtx == CtxInit /\ [][Next]_vars

\* note_from_mml as a function of its arguments: playback stands at the call
\* with any letter A..G, any accidental and any uint8_t octave.
NoteLetters == {CH_A, CH_B, CH_C, CH_D, CH_E, CH_F, CH_G}
Accidentals == {-1, 0, 1}

NoteArgsInit ==
  /\ pc = "note_play"
  /\ is_playing = TRUE
  /\ event = "EVENT_LIGHT_BUTTON_UP"
  /\ ret = "none"
  /\ mml = <<>>
  /\ p = 1
  /\ c \in NoteLetters
  /\ accidental \in Accidentals
  /\ octave \in 0..UINT8_MAX
  /\ is_rest = 0
  /\ len = DEFAULT_LEN
  /\ dur_ms = DurMs(DEFAULT_LEN)
  /\ NoDelay
  /\ display = BlankDisplay
  /\ sharp = FALSE
  /\ flat = FALSE
  /\ buzzer = "none"
  /\ tokens = <<>>
  /\ cmds = <<>>
  /\ pending = "none"
  /\ fn_args = <<>>
  /\ fn_result = <<>>
  /\ TideUnused

InitOrNoteArgs == Init \/ NoteArgsInit

SpecNoteArgs == InitOrNoteArgs /\ [][Next]_vars

\* mml_delay_ms as a function of its argument: playback stands at the call
\* in the rest branch with any duration a rest can have, 0 up to that of a
\* whole rest.
DelayArgsInit ==
  /\ pc = "delay_call"
  /\ is_playing = TRUE
  /\ event = "EVENT_LIGHT_BUTTON_UP"
  /\ ret = "none"
  /\ mml = <<>>
  /\ p = 1
  /\ c = CH_R
  /\ accidental = 0
  /\ octave = START_OCTAVE
  /\ is_rest = 1
  /\ len = DEFAULT_LEN
  /\ dur_ms \in 0..DurMs(1)
  /\ NoDelay
  /\ display = BlankDisplay
  /\ sharp = FALSE
  /\ flat = FALSE
  /\ buzzer = "off"
  /\ tokens = <<>>
  /\ cmds = <<>>
  /\ pending = "none"
  /\ fn_args = <<>>
  /\ fn_result = <<>>
  /\ TideUnused

LiveInitOrDelayArgs == LiveInit \/ DelayArgsInit

\* The processor keeps executing the handler and the RTC keeps counting.
SpecDelayArgs ==
  /\ LiveInitOrDelayArgs
  /\ [][Next]_vars
  /\ WF_vars(Run)
  /\ WF_vars(RtcTick)

(***************************************************************************)
(* Properties.                                                             *)
(***************************************************************************)
LastCmds(n) == SubSeq(cmds, Len(cmds) - n + 1, Len(cmds))

\* C1 (re-entrancy guard): a begin-playback event that finds is_playing set
\* starts nothing: the handler returns at once, and is_playing, the score,
\* the LCD, the buzzer and the command history are as they were.
C1_ReentrancyGuard ==
  [][(pc = "idle" /\ is_playing /\ event' = "EVENT_LIGHT_BUTTON_UP")
       => /\ pc' = "idle"
          /\ ret' = "true"
          /\ UNCHANGED <<is_playing, mml, locals, delayv, lcd, buzzer, history>>]_vars

\* The handler has returned from a begin-playback event with is_playing set.
C1_Witness ==
  /\ pc = "idle"
  /\ is_playing
  /\ event = "EVENT_LIGHT_BUTTON_UP"
  /\ ret = "true"
  /\ cmds = <<>>

\* C2 (termination): playback never traps, every pass of the scan loop that
\* does not leave it moves the cursor forward, the scan reaches the end of
\* the score, and every handler invocation returns to idle with is_playing
\* cleared.
C2_PlayTerminates ==
  /\ [](pc # "fault")
  /\ [][(pc = "scan" /\ pc' # "end_display") => p' > p]_vars
  /\ (pc = "scan") ~> (pc = "end_display")
  /\ (pc # "idle") ~> (pc = "idle" /\ ~is_playing)

\* A score with a malformed byte and a rest ("xr") has been played to the end.
C2_Witness ==
  /\ pc = "idle"
  /\ event = "EVENT_LIGHT_BUTTON_UP"
  /\ ~is_playing
  /\ mml = <<120, 114>>
  /\ Len(tokens) = 1
  /\ Len(cmds) > 0

CleanupCmds ==
  <<CleanupCmd("note_char", CH_SPACE, 0),
    CleanupCmd("clear_pixel", 0, SEG_SHARP),
    CleanupCmd("clear_pixel", 0, SEG_FLAT),
    CleanupCmd("buzzer_off", 0, 0)>>

Cleaned ==
  /\ Len(cmds) >= 4
  /\ LastCmds(4) = CleanupCmds
  /\ display[0] = CH_SPACE
  /\ ~sharp
  /\ ~flat
  /\ buzzer = "off"

\* C3 (end-of-input cleanup): once mml_play_blocking has returned from a
\* non-null score, its last four commands were blank digit 0, clear the sharp
\* pixel, clear the flat pixel, buzzer off, and the LCD and the buzzer are in
\* that state; is_playing is still set then, and is clear only at idle.
C3_EndCleanup ==
  /\ (mml # NULL_MML /\ pc \in {"show_done", "finish"}) => (Cleaned /\ is_playing)
  /\ (mml # NULL_MML /\ pc = "idle" /\ event = "EVENT_LIGHT_BUTTON_UP")
       => (Cleaned /\ ~is_playing)
  /\ ~is_playing => pc = "idle"

\* The empty score has been played.
C3_Witness ==
  /\ pc = "idle"
  /\ event = "EVENT_LIGHT_BUTTON_UP"
  /\ mml = <<>>
  /\ cmds = CleanupCmds
  /\ ~is_playing

\* C4 (pitch index bounds): every tone command carries a pitch index in
\* 0..86, for every letter A..G, accidental and octave 0..255 the resolver is
\* called with.
C4_PitchIndexBounds ==
  \A i \in 1..Len(cmds) :
    cmds[i].op = "play_note" => (cmds[i].a >= 0 /\ cmds[i].a <= NOTE_INDEX_MAX)

\* A note resolved at octave 255 was clamped to the last table entry.
C4_Witness ==
  /\ pc = "post_clear_sharp"
  /\ octave = UINT8_MAX
  /\ Len(cmds) > 0
  /\ cmds[Len(cmds)].op = "play_note"
  /\ cmds[Len(cmds)].a = NOTE_INDEX_MAX

(***************************************************************************)
(* The grammar of a score, stated on the text itself (no cursor): tokens   *)
(* start at the note and rest letters.                                     *)
(***************************************************************************)
\* A..G, a..g / R, P, r, p
GrammarNoteLetters == {65, 66, 67, 68, 69, 70, 71, 97, 98, 99, 100, 101, 102, 103}
GrammarRestLetters == {80, 82, 112, 114}
GrammarSeparators  == {32, 9, 124}
GrammarDigits      == 48..57

LetterPositions(s) ==
  {i \in 1..Len(s) : s[i] \in GrammarNoteLetters \cup GrammarRestLetters}

\* The k-th letter position of s, from the left.
NthLetter(s, k) ==
  CHOOSE i \in LetterPositions(s) :
    Cardinality({j \in LetterPositions(s) : j <= i}) = k

RECURSIVE Pow10(_)
Pow10(n) == IF n = 0 THEN 1 ELSE 10 * Pow10(n - 1)

\* First position from i on that holds no digit.
DigitRunEnd(s, i) ==
  CHOOSE e \in i..(Len(s) + 1) :
    /\ (e = Len(s) + 1 \/ s[e] \notin GrammarDigits)
    /\ \A j \in i..(e - 1) : s[j] \in GrammarDigits

RECURSIVE SumDigits(_, _, _)
SumDigits(s, i, e) ==
  IF i >= e THEN 0
  ELSE (s[i] - 48) * Pow10(e - 1 - i) + SumDigits(s, i + 1, e)

\* Decimal value of the digit run that starts at i (0 for an empty run).
DigitRunValue(s, i) == SumDigits(s, i, DigitRunEnd(s, i))

UpperLetter(ch) == IF ch >= 97 THEN ch - 32 ELSE ch

GrammarToken(s, i) ==
  LET isRest == s[i] \in GrammarRestLetters
      nxt    == IF i + 1 <= Len(s) THEN s[i + 1] ELSE 0
      acc    == IF isRest THEN 0
                ELSE IF nxt \in {43, 35} THEN 1
                ELSE IF nxt = 45 THEN -1
                ELSE 0
      ds     == IF acc = 0 THEN i + 1 ELSE i + 2
  IN  [kind |-> IF isRest THEN "rest" ELSE "note",
       letter |-> UpperLetter(s[i]),
       acc |-> acc,
       explicit |-> DigitRunValue(s, ds)]

TokenView(t) ==
  [kind |-> t.kind, letter |-> t.letter, acc |-> t.acc, explicit |-> t.explicit]

\* The scan loop of a non-null score has reached the end of the text.
ScanDone ==
  /\ mml # NULL_MML
  /\ \/ pc \in {"end_display", "end_clear_sharp", "end_clear_flat",
                "end_buzzer_off", "show_done", "finish"}
     \/ pc = "idle" /\ event = "EVENT_LIGHT_BUTTON_UP"

Played ==
  /\ mml # NULL_MML
  /\ pc = "idle"
  /\ event = "EVENT_LIGHT_BUTTON_UP"

\* C5 (token grammar): the tokens scanned so far are, in order, the tokens
\* the grammar gives for the first note/rest letters of the score (kind,
\* letter, accidental from the character right after a note letter, explicit
\* length from the digit run after that); at the end of the scan there is one
\* per letter; "c8 d-8 r4" in either case gives Note(C,0,8) Note(D,-1,8)
\* Rest(4).
C5_TokenGrammar ==
  /\ mml # NULL_MML =>
       /\ Len(tokens) <= Cardinality(LetterPositions(mml))
       /\ \A k \in 1..Len(tokens) :
            TokenView(tokens[k]) = GrammarToken(mml, NthLetter(mml, k))
  /\ ScanDone => Len(tokens) = Cardinality(LetterPositions(mml))
  /\ (ScanDone /\ mml \in {ScoreC8Dm8R4, ScoreC8Dm8R4Upper}) =>
       <<TokenView(tokens[1]), TokenView(tokens[2]), TokenView(tokens[3])>> =
         <<[kind |-> "note", letter |-> 67, acc |-> 0, explicit |-> 8],
           [kind |-> "note", letter |-> 68, acc |-> -1, explicit |-> 8],
           [kind |-> "rest", letter |-> 82, acc |-> 0, explicit |-> 4]>>

\* "c8 d-8 r4" has been played and gave three tokens.
C5_Witness ==
  /\ Played
  /\ mml = ScoreC8Dm8R4
  /\ Len(tokens) = 3

CountOps(ops) == Cardinality({i \in 1..Len(cmds) : cmds[i].op \in ops})

OnlySeparators(s) == \A i \in 1..Len(s) : s[i] \in GrammarSeparators

\* C6 (silent skipping): a scan pass that skips a character issues no
\* command, scans no token and leaves LCD and buzzer alone; so at the end of
\* the scan the tokens, and the tone and wait commands together, are as many
\* as the score has note/rest letters, and a score of separators only (or
\* empty) gives no token and nothing but the cleanup commands.
C6_SilentSkipping ==
  /\ [][(pc = "scan" /\ pc' = "scan") => UNCHANGED <<history, lcd, buzzer>>]_vars
  /\ [](ScanDone =>
          /\ Len(tokens) = Cardinality(LetterPositions(mml))
          /\ CountOps({"play_note", "delay"}) = Len(tokens))
  /\ []((mml # NULL_MML /\ OnlySeparators(mml)) =>
          /\ tokens = <<>>
          /\ pc \notin {"clear_sharp", "clear_flat", "fault"}
          /\ Len(cmds) <= 4
          /\ cmds = SubSeq(CleanupCmds, 1, Len(cmds))
          /\ Played => cmds = CleanupCmds)

\* A score of one unrecognised character and one note ("xc") was played:
\* one token, one tone.
C6_Witness ==
  /\ Played
  /\ mml = <<120, 99>>
  /\ Len(tokens) = 1
  /\ CountOps({"play_note"}) = 1

\* Commands issued for token k, in order.
Segment(k) == SelectSeq(cmds, LAMBDA x : x.tok = k)

\* Token k has been rendered completely.
Rendered(k) ==
  \/ k < Len(tokens)
  \/ k = Len(tokens) /\ pc \in {"scan", "end_display", "end_clear_sharp",
                                "end_clear_flat", "end_buzzer_off", "show_done",
                                "finish", "idle"}

\* C7 (duration): every tone command lasts (4 * (60000 div tempo)) div L for
\* the effective length L of its note token, every rendered note token has
\* exactly one tone command, and "c4" at tempo 120 gives exactly one tone
\* command, of 500 ms, then the cleanup and idle.
C7_Duration ==
  /\ \A i \in 1..Len(cmds) :
       cmds[i].op = "play_note" =>
         /\ cmds[i].tok \in 1..Len(tokens)
         /\ tokens[cmds[i].tok].kind = "note"
         /\ cmds[i].b = (4 * (60000 \div 120)) \div tokens[cmds[i].tok].len
  /\ \A k \in 1..Len(tokens) :
       (tokens[k].kind = "note" /\ Rendered(k)) =>
         Cardinality({i \in 1..Len(cmds) :
                        cmds[i].op = "play_note" /\ cmds[i].tok = k}) = 1
  /\ (Played /\ mml = ScoreC4) =>
       /\ CountOps({"play_note"}) = 1
       /\ \E i \in 1..Len(cmds) : cmds[i].op = "play_note" /\ cmds[i].b = 500
       /\ Cleaned
       /\ ~is_playing

\* "c4" has been played.
C7_Witness ==
  /\ Played
  /\ mml = ScoreC4
  /\ CountOps({"play_note"}) = 1

\* C8 (length defaulting): a token whose digit run is absent or evaluates to
\* 0 has length 4, any other has the value of its run; so every length is at
\* least 1, every tone and wait lasts 2000 div length, and the division never
\* traps.
C8_LengthDefault ==
  /\ pc # "fault"
  /\ \A k \in 1..Len(tokens) :
       /\ tokens[k].len >= 1
       /\ tokens[k].explicit = 0 => tokens[k].len = 4
       /\ tokens[k].explicit > 0 => tokens[k].len = tokens[k].explicit
  /\ \A i \in 1..Len(cmds) :
       cmds[i].op = "delay" =>
         /\ cmds[i].tok \in 1..Len(tokens)
         /\ cmds[i].a = 2000 \div tokens[cmds[i].tok].len

\* "r00" has been played: the rest waited 500 ms.
C8_Witness ==
  /\ Played
  /\ mml = <<114, 48, 48>>
  /\ Len(tokens) = 1
  /\ tokens[1].explicit = 0
  /\ tokens[1].len = 4
  /\ \E i \in 1..Len(cmds) : cmds[i].op = "delay" /\ cmds[i].a = 500

IsPrefix(s, t) == Len(s) <= Len(t) /\ s = SubSeq(t, 1, Len(s))

\* A command without the arguments of a tone.
Shape(x) ==
  IF x.op = "play_note" THEN [op |-> x.op, a |-> 0, b |-> 0]
  ELSE [op |-> x.op, a |-> x.a, b |-> x.b]

ShapeSeq(s) == [i \in 1..Len(s) |-> Shape(s[i])]

LowerLetter(ch) == IF ch >= 65 /\ ch <= 90 THEN ch + 32 ELSE ch

NoteRendering(t) ==
  <<[op |-> "clear_pixel", a |-> 0, b |-> 12],
    [op |-> "clear_pixel", a |-> 0, b |-> 15],
    [op |-> "note_char", a |-> LowerLetter(t.letter), b |-> 0]>>
  \o (IF t.acc = 1 THEN <<[op |-> "set_pixel", a |-> 0, b |-> 12]>>
      ELSE IF t.acc = -1 THEN <<[op |-> "set_pixel", a |-> 0, b |-> 15]>>
      ELSE <<>>)
  \o <<[op |-> "play_note", a |-> 0, b |-> 0],
       [op |-> "clear_pixel", a |-> 0, b |-> 12],
       [op |-> "clear_pixel", a |-> 0, b |-> 15]>>

\* C9 (rendering of a note): the commands of every note token are, in order,
\* clear sharp, clear flat, show the letter, set the sharp pixel iff the
\* accidental is +1 or the flat pixel iff it is -1, the tone, clear sharp,
\* clear flat; when the tone is about to be commanded the sharp pixel is on
\* iff the note is sharp and the flat pixel iff it is flat; the two pixels
\* are never both on.
C9_NoteRendering ==
  /\ ~(sharp /\ flat)
  /\ pc = "note_play" =>
       /\ sharp <=> (accidental = 1)
       /\ flat <=> (accidental = -1)
       /\ display[0] = LowerLetter(c)
  /\ \A k \in 1..Len(tokens) :
       tokens[k].kind = "note" =>
         /\ IsPrefix(ShapeSeq(Segment(k)), NoteRendering(tokens[k]))
         /\ Rendered(k) => ShapeSeq(Segment(k)) = NoteRendering(tokens[k])

\* The tone of a flat note has just been commanded with the flat pixel on.
C9_Witness ==
  /\ pc = "post_clear_sharp"
  /\ accidental = -1
  /\ flat
  /\ ~sharp
  /\ cmds[Len(cmds)].op = "play_note"

RestRendering(t) ==
  <<[op |-> "clear_pixel", a |-> 0, b |-> 12],
    [op |-> "clear_pixel", a |-> 0, b |-> 15],
    [op |-> "note_char", a |-> 32, b |-> 0],
    [op |-> "buzzer_off", a |-> 0, b |-> 0],
    [op |-> "delay", a |-> 2000 \div t.len, b |-> 0]>>

\* C10 (rest handling): the commands of every rest token are, in order,
\* clear sharp, clear flat, blank digit 0, buzzer off, wait for the token's
\* duration, and never a tone; during the wait digit 0 is blank, both pixels
\* are off and the buzzer's last command is off.
C10_RestHandling ==
  /\ pc \in {"delay_call", "delay_loop"} =>
       /\ ~sharp
       /\ ~flat
       /\ display[0] = 32
       /\ buzzer = "off"
       /\ tokens[Len(tokens)].kind = "rest"
  /\ pc = "delay_loop" => ms = 2000 \div tokens[Len(tokens)].len
  /\ \A k \in 1..Len(tokens) :
       tokens[k].kind = "rest" =>
         /\ IsPrefix(ShapeSeq(Segment(k)), RestRendering(tokens[k]))
         /\ Rendered(k) => ShapeSeq(Segment(k)) = RestRendering(tokens[k])

\* A whole rest ("r1") is half-way through its wait.
C10_Witness ==
  /\ pc = "delay_loop"
  /\ ms = 2000
  /\ elapsed = 1000
  /\ tokens[Len(tokens)].kind = "rest"
  /\ ~sharp
  /\ ~flat

(***************************************************************************)
(* The resolver's arithmetic as the specification words it.                *)
(***************************************************************************)
\* C=0, D=2, E=4, F=5, G=7, A=9, B=11
ResolverBase(letter) ==
  CASE letter = 67 -> 0 [] letter = 68 -> 2 [] letter = 69 -> 4
    [] letter = 70 -> 5 [] letter = 71 -> 7 [] letter = 65 -> 9
    [] letter = 66 -> 11

ResolverSemitone(letter, acc) ==
  LET s == ResolverBase(letter) + acc
  IN  IF s < 0 THEN s + 12 ELSE IF s >= 12 THEN s - 12 ELSE s

ResolverOctave(letter, acc, oct) ==
  LET s == ResolverBase(letter) + acc
  IN  IF s < 0 THEN (IF oct > 1 THEN oct - 1 ELSE oct)
      ELSE IF s >= 12 THEN (IF oct < 8 THEN oct + 1 ELSE oct)
      ELSE oct

\* octave' * 12 + semitone' - 21, before the clamp to the table
ResolverRaw(letter, acc, oct) ==
  ResolverOctave(letter, acc, oct) * 12 + ResolverSemitone(letter, acc) - 21

ResolverIndex(letter, acc, oct) ==
  LET r == ResolverRaw(letter, acc, oct)
  IN  IF r < 0 THEN 0 ELSE IF r > 86 THEN 86 ELSE r

\* The result for (letter, acc, oct) was clamped at a table boundary.
IndexClamped(letter, acc, oct) ==
  ResolverRaw(letter, acc, oct) < 0 \/ ResolverRaw(letter, acc, oct) > 86

\* The tone of the note in c, accidental, octave has just been commanded.
ToneJustIssued ==
  /\ pc = "post_clear_sharp"
  /\ Len(cmds) > 0
  /\ cmds[Len(cmds)].op = "play_note"

InPlayLoop ==
  pc \in {"scan", "clear_sharp", "clear_flat", "rest_display", "rest_buzzer_off",
          "note_display", "note_pixel", "note_play", "post_clear_sharp",
          "post_clear_flat", "end_display", "end_clear_sharp", "end_clear_flat",
          "end_buzzer_off", "delay_call", "delay_loop", "fault"}

\* C12 (fixed octave): every tone of a play invocation is the index of its
\* token's letter and accidental at octave 4, whatever notes came before it,
\* and the octave variable of the invocation is 4 at every step of the loop.
C12_OctaveFixed ==
  /\ \A i \in 1..Len(cmds) :
       cmds[i].op = "play_note" =>
         /\ cmds[i].tok \in 1..Len(tokens)
         /\ cmds[i].a = ResolverIndex(tokens[cmds[i].tok].letter,
                                      tokens[cmds[i].tok].acc, 4)
  /\ InPlayLoop => octave = 4

\* "B+c" was played: B sharp rolled over to index 39 (C5) and the c after it
\* still sounded at octave 4, index 27.
C12_Witness ==
  /\ Played
  /\ mml = <<66, 43, 99>>
  /\ Len(tokens) = 2
  /\ SelectSeq(cmds, LAMBDA x : x.op = "play_note") =
       <<[op |-> "play_note", a |-> 39, b |-> 500, tok |-> 1],
         [op |-> "play_note", a |-> 27, b |-> 500, tok |-> 2]>>

(***************************************************************************)
(* The commands of a play invocation, computed from the text of the score. *)
(***************************************************************************)
ExpectedSegment(s, k) ==
  LET t == GrammarToken(s, NthLetter(s, k))
      L == IF t.explicit = 0 THEN 4 ELSE t.explicit
      d == ((4 * (60000 \div 120)) \div L) % 65536
      seg == IF t.kind = "rest"
             THEN <<[op |-> "clear_pixel", a |-> 0, b |-> 12],
                    [op |-> "clear_pixel", a |-> 0, b |-> 15],
                    [op |-> "note_char", a |-> 32, b |-> 0],
                    [op |-> "buzzer_off", a |-> 0, b |-> 0],
                    [op |-> "delay", a |-> d, b |-> 0]>>
             ELSE <<[op |-> "clear_pixel", a |-> 0, b |-> 12],
                    [op |-> "clear_pixel", a |-> 0, b |-> 15],
                    [op |-> "note_char", a |-> LowerLetter(t.letter), b |-> 0]>>
                  \o (IF t.acc = 1 THEN <<[op |-> "set_pixel", a |-> 0, b |-> 12]>>
                      ELSE IF t.acc = -1
                           THEN <<[op |-> "set_pixel", a |-> 0, b |-> 15]>>
                           ELSE <<>>)
                  \o <<[op |-> "play_note",
                        a |-> ResolverIndex(t.letter, t.acc, 4), b |-> d],
                       [op |-> "clear_pixel", a |-> 0, b |-> 12],
                       [op |-> "clear_pixel", a |-> 0, b |-> 15]>>
  IN  [i \in 1..Len(seg) |->
         [op |-> seg[i].op, a |-> seg[i].a, b |-> seg[i].b, tok |-> k]]

RECURSIVE ExpectedUpTo(_, _)
ExpectedUpTo(s, k) ==
  IF k = 0 THEN <<>> ELSE ExpectedUpTo(s, k - 1) \o ExpectedSegment(s, k)

ExpectedCmds(s) ==
  ExpectedUpTo(s, Cardinality(LetterPositions(s)))
  \o <<[op |-> "note_char", a |-> 32, b |-> 0, tok |-> 0],
       [op |-> "clear_pixel", a |-> 0, b |-> 12, tok |-> 0],
       [op |-> "clear_pixel", a |-> 0, b |-> 15, tok |-> 0],
       [op |-> "buzzer_off", a |-> 0, b |-> 0, tok |-> 0]>>

ToneCount(s) == Cardinality({i \in 1..Len(s) : s[i].op = "play_note"})

\* C14 (ALARM stops playback): once ALARM has been pressed during a
\* playback, no further tone is commanded.
C14_AlarmStopsPlayback ==
  [][(pc # "idle" /\ pending = "EVENT_ALARM_BUTTON_UP") =>
       ToneCount(cmds') = ToneCount(cmds)]_vars

\* C15 (whole note, quarter note): at every tempo the whole note lasts four
\* times the quarter note, and the duration of every note length 1, 2, 4, 8,
\* 16, 32 is a non-negative integer.
C15_WholeIsFourQuarters ==
  fn_result # <<>> =>
    /\ Len(fn_result) = 6
    /\ fn_result[1] = 4 * fn_result[3]
    /\ \A i \in 1..6 : fn_result[i] \in Nat

\* The durations at tempo 120: 2000, 1000, 500, 250, 125, 62 ms.
C15_Witness ==
  /\ fn_args = <<120>>
  /\ fn_result = <<2000, 1000, 500, 250, 125, 62>>

\* The accidental the single character after position i of s gives.
AccidentalAfter(s, i) ==
  IF i + 1 > Len(s) THEN 0
  ELSE IF s[i + 1] = 43 \/ s[i + 1] = 35 THEN 1
  ELSE IF s[i + 1] = 45 THEN -1
  ELSE 0

\* C16 (one accidental per note): the accidental of every note token is the
\* one its single next character gives and its tone is the pitch of that
\* accidental; rest tokens have accidental 0; modifier characters start no
\* token; "c+-8", "c+-" and "c##" each give one token, C sharp of default
\* length, sounded at index 28.
C16_OneAccidental ==
  /\ mml # NULL_MML =>
       /\ Len(tokens) <= Cardinality(LetterPositions(mml))
       /\ \A k \in 1..Len(tokens) :
            /\ tokens[k].kind = "rest" => tokens[k].acc = 0
            /\ tokens[k].kind = "note" =>
                 tokens[k].acc = AccidentalAfter(mml, NthLetter(mml, k))
       /\ \A i \in 1..Len(cmds) :
            cmds[i].op = "play_note" =>
              cmds[i].a =
                ResolverIndex(UpperLetter(mml[NthLetter(mml, cmds[i].tok)]),
                              AccidentalAfter(mml, NthLetter(mml, cmds[i].tok)), 4)
  /\ (ScanDone /\ mml \in {ScoreTwoModifiers, ScoreTwoSharps, <<99, 43, 45>>}) =>
       /\ Len(tokens) = 1
       /\ tokens[1].acc = 1
       /\ tokens[1].explicit = 0
       /\ tokens[1].len = 4
       /\ \A i \in 1..Len(cmds) :
            cmds[i].op = "play_note" => (cmds[i].a = 28 /\ cmds[i].b = 500)

\* "c+-8" was played: one token, one tone, C sharp for 500 ms.
C16_Witness ==
  /\ Played
  /\ mml = ScoreTwoModifiers
  /\ Len(tokens) = 1
  /\ SelectSeq(cmds, LAMBDA x : x.op = "play_note") =
       <<[op |-> "play_note", a |-> 28, b |-> 500, tok |-> 1]>>

\* "Recomputes every 10 minutes": 600 s.
RECOMPUTE_PERIOD_SECONDS == 600

\* C17 (tide face, ten minutes): once the display has been recomputed, a
\* tick recomputes it again exactly if ten minutes have passed since.
C17_RecomputeEveryTenMinutes ==
  [][(tide_event' = "EVENT_TICK" /\ last_update_epoch >= 0) =>
       ((last_update_epoch' # last_update_epoch) <=>
          (rtc_epoch >= last_update_epoch + RECOMPUTE_PERIOD_SECONDS))]_vars

\* C18 (resolver arithmetic): for every letter A..G, accidental -1..1 and
\* octave 1..8, the index commanded is clamp(o' * 12 + s' - 21, 0, 86) with
\* the borrow to the octave below only above octave 1 and the carry to the
\* octave above only below octave 8; o' stays in 1..8, and A natural at
\* octave 1 is index 0.
C18_ResolverArithmetic ==
  (ToneJustIssued /\ octave \in 1..8) =>
    /\ cmds[Len(cmds)].a = ResolverIndex(c, accidental, octave)
    /\ ResolverOctave(c, accidental, octave) \in 1..8
    /\ (c = 65 /\ accidental = 0 /\ octave = 1) => cmds[Len(cmds)].a = 0

\* C flat at octave 1 has been sounded: the octave stayed 1, index 2 (B1).
C18_Witness ==
  /\ ToneJustIssued
  /\ c = 67
  /\ accidental = -1
  /\ octave = 1
  /\ cmds[Len(cmds)].a = 2

C20_NotPlayingAtDispatch ==
  /\ [](pc = "idle" => ~is_playing)
  /\ [][(pc = "idle" /\ event' = "EVENT_LIGHT_BUTTON_UP") =>
          (pc' = "play_call" /\ is_playing')]_vars
  /\ [][event' = "resign" => buzzer' = buzzer]_vars

\* The face has resigned after a playback: is_playing was false, the buzzer's
\* last command is still the playback's own buzzer-off.
C20_Witness ==
  /\ pc = "idle"
  /\ event = "resign"
  /\ ~is_playing
  /\ buzzer = "off"
  /\ Cleaned

\* C21 (coarse delay): a call of mml_delay_ms with ms in 0..2000 returns
\* having observed exactly ceil(ms / 1000) changes of the RTC's seconds
\* field (none for 0, one for 1..1000, two for 1001..2000), so the seconds
\* waited exceed ms by less than one second; and, the RTC counting on, every
\* call returns.
C21_CoarseDelay ==
  /\ [][(pc = "delay_loop" /\ pc' # "delay_loop") =>
          /\ ms \in 0..2000
          /\ sec_seen' = (ms + 999) \div 1000
          /\ sec_seen' * 1000 - ms \in 0..999]_vars
  /\ [][(pc = "delay_loop" /\ ms = 0 /\ sec_changed' = sec_changed) =>
          pc' # "delay_loop"]_vars
  /\ (pc = "delay_loop") ~> (pc # "delay_loop")

\* A delay of 1500 ms has returned after two changes of the second.
C21_Witness ==
  /\ pc = "scan"
  /\ sec_seen = 2
  /\ cmds = <<[op |-> "delay", a |-> 1500, b |-> 0, tok |-> 0]>>

\* C22 (duration range): the duration of every token is in 0..2000, so the
\* value handed to the tone and to the delay is the duration itself (the
\* cast to uint16_t drops nothing); a length above 2000 gives the duration
\* 0; inside the delay ms is in 0..2000 and elapsed is 0, 1000 or 2000, far
\* from the wrap of uint16_t.
C22_DurationRange ==
  /\ dur_ms \in 0..2000
  /\ \A k \in 1..Len(tokens) : tokens[k].len >= 1
  /\ \A i \in 1..Len(cmds) :
       cmds[i].op \in {"play_note", "delay"} =>
         LET d == IF cmds[i].op = "play_note" THEN cmds[i].b ELSE cmds[i].a
             L == tokens[cmds[i].tok].len
         IN  /\ d \in 0..2000
             /\ d = 2000 \div L
             /\ L > 2000 => d = 0
  /\ ms \in 0..2000
  /\ elapsed \in {0, 1000, 2000}
  /\ elapsed + 1000 < 65536

\* "r2001 c9999" has been played: a wait of 0 ms and a tone of 0 ms.
C22_Witness ==
  /\ Played
  /\ mml = ScoreLong
  /\ \E i \in 1..Len(cmds) :
       cmds[i] = [op |-> "delay", a |-> 0, b |-> 0, tok |-> 1]
  /\ \E i \in 1..Len(cmds) :
       /\ cmds[i].op = "play_note"
       /\ cmds[i].b = 0
       /\ cmds[i].tok = 2
=============================================================================
